---- MODULE Spec2Model ----
(***************************************************************************)
(* Model of the factoring engine of Prime-Vector-Analyzer                   *)
(* (services/vectorEngine.ts): the worker kernel (binary gcd, Brent's rho), *)
(* QuantumFactoringArchitect (power, isPrime, findFactorParallel,           *)
(* factorizeAsync) and the classification step of analyzeNumber.            *)
(*                                                                          *)
(* JavaScript runs the main thread one task at a time: the body of          *)
(* factorizeAsync between two awaits is not interleaved with message or      *)
(* timer callbacks, so callbacks are enabled only while the call is          *)
(* suspended at its await (pc = "await") or has returned (pc = "done").      *)
(* Workers are real threads: a lane finishes and posts at any moment.        *)
(*                                                                          *)
(* Spec runs the lanes with the kernel's own results; SpecForged also hands  *)
(* worker.onmessage messages the kernel would not send, to examine the       *)
(* coordinator's own test of a candidate.  The definitions follow the later  *)
(* of the two copies of the engine (3 minute timer, nine sieve primes); the  *)
(* coordinator and the work loop are the same in both.                       *)
(*                                                                          *)
(* Smaller specifications run one part each while the rest stays idle:      *)
(* SpecIsPrime applies isPrime to a range of arguments, SpecGcd the binary   *)
(* gcd, SpecBatch one doubling of the search with its backtracking,          *)
(* SpecLaunch is the lane launch of the earlier copy (A1 column and random   *)
(* seed), SpecPair runs two factorizeAsync calls at once, SpecApp is the     *)
(* page (input fields, mode switch, handleAnalyze).                          *)
(***************************************************************************)
EXTENDS Integers, Sequences, FiniteSets, TLC

VARIABLES
    nVal,            \* the argument of analyzeNumber / factorizeAsync (nBig)
    pc,              \* position of the analyzeNumber/factorizeAsync call
    factors,         \* factorizeAsync: const factors
    queue,           \* factorizeAsync: let queue (a stack, popped at the end)
    current,         \* factorizeAsync: const current (0 outside a search)
    factor,          \* factorizeAsync: const factor, the awaited round result
    rounds,          \* one record per findFactorParallel promise ever created
    flatA1,          \* the entries of A1 read by the lanes with index >= 3
    forged,          \* TRUE when lane messages are injected (handler input)
    result,          \* the list factorizeAsync returned (<<>> before)
    classification,  \* analyzeNumber: let classification ("" before)
    unresolved,      \* history: cofactors appended by the failure branch
    pops,            \* history: composite cofactors handed to a round
    arg,             \* isPrime called on its own: the argument n
    verdict,         \* isPrime called on its own: the value returned
    hw,              \* navigator.hardwareConcurrency (0 when undefined)
    launch,          \* earlier copy: the lane parameters handed out so far
    mode,            \* App: useState mode
    inputA,          \* App: useState inputA, a sequence of characters
    inputB,          \* App: useState inputB
    reportA,         \* App: useState reportA
    reportB,         \* App: useState reportB
    computing,       \* App: useState computing
    error,           \* App: useState error
    call,            \* App: the handleAnalyze call in progress and its closure
    invoked,         \* App: the argument of the analyzeNumber call in progress
    toggled,         \* history: the mode switch was clicked after the last
                     \* handleAnalyze
    probe,           \* the worker kernel called on its own: the arguments
    outcome,         \* the worker kernel called on its own: <<value returned>>
    calls,           \* two factorizeAsync calls at once: the locals of each
    pool             \* two factorizeAsync calls at once: the rounds of both

engineVars == <<nVal, pc, factors, queue, current, factor, rounds, flatA1,
                forged, result, classification, unresolved, pops>>

primeVars == <<arg, verdict>>

launchVars == <<hw, launch>>

appVars == <<mode, inputA, inputB, reportA, reportB, computing, error, call,
             invoked, toggled>>

kernelVars == <<probe, outcome>>

pairVars == <<calls, pool>>

vars == <<engineVars, primeVars, launchVars, appVars, kernelVars, pairVars>>

-----------------------------------------------------------------------------
(* Bounds of the model *)

\* inputs -1 .. MaxSmallN are all tried
MaxSmallN == 30

\* the worker's STEPS_LIMIT (50000000 in the source), scaled down so that a
\* lane exhausts its budget on the cofactors the model can reach
STEPS_LIMIT == 2

\* the unknown entries of A1 (constants.ts) range over 0 .. MaxA1
MaxA1 == 1

\* inputs whose residual after the sieve is composite:
\* 29*29, 29*31, 29*37, 29*43, 2*29*29, 29*29*29
HardInputs == {841, 899, 1073, 1247, 1682, 24389}

\* the inputs of the small-number oracle beyond MaxSmallN: 7*13, 2*2*5*5
OracleInputs == {91, 100}

Inputs == (-1 .. MaxSmallN) \cup HardInputs \cup OracleInputs

\* isPrime on its own is applied to every n in -2 .. MaxPrimeArg
MaxPrimeArg == 2000

\* the binary gcd on its own is applied to every a, b in 0 .. MaxGcdArg
MaxGcdArg == 40

\* one doubling of the search on its own: moduli 2 .. MaxModulus, constants
\* 0 .. MaxConstant, seeds 0 .. MaxSeed, batches of 2^0 .. 2^MaxDoublings
MaxModulus == 30

MaxConstant == 3

MaxSeed == 7

MaxDoublings == 3

\* the arguments of two factorizeAsync calls made on the one architect:
\* 29*29 with 29*31, and 29*31 with a number the sieve finishes
PairInputs == {<<841, 899>>, <<899, 6>>}

\* navigator.hardwareConcurrency ranges over 0 (undefined) .. MaxCores
MaxCores == 7

\* the values of Math.floor(Math.random() * 1000), out of 0 .. 999, that a
\* lane of the earlier copy may draw
RandomSamples == {0, 600, 999}

\* the texts typed into the two input fields: empty, zero, a number, a
\* number with a leading zero, zeros only, and texts with a letter in them
InputStrings ==
    {<<>>, <<"0">>, <<"7">>, <<"x">>, <<"0", "7">>, <<"0", "0">>,
     <<"7", "x">>}

-----------------------------------------------------------------------------
(* Program constants *)

\* worker: const m = 1000n
m == 1000

\* findFactorParallel: Math.max(4, logicalCores), hardwareConcurrency || 4
MinWorkers == 4

\* isPrime: const bases
bases == <<2, 3, 5, 7, 11, 13, 17, 19, 23, 29, 31, 37>>

\* factorizeAsync: const smallBasis
smallBasis == <<2, 3, 5, 7, 11, 13, 17, 19, 23>>

\* { factor: null }
Null == -1

\* a promise that has not been resolved yet
Pending == -2

\* App: a report state that is null; a report r is held as <<r>>
NoReport == <<>>

\* App: the error state null
NoError == "null"

\* App: no handleAnalyze call is in progress
NoCall == [at |-> "none", mode |-> "single", inputA |-> <<>>, inputB |-> <<>>]

\* App: no analyzeNumber call is in progress; an argument val is held as <<val>>
NoInvocation == <<>>

-----------------------------------------------------------------------------
(* Arithmetic helpers *)

Abs(a) == IF a < 0 THEN -a ELSE a

Min(a, b) == IF a < b THEN a ELSE b

Max(a, b) == IF a > b THEN a ELSE b

RECURSIVE Product(_)
Product(s) == IF s = <<>> THEN 1 ELSE Head(s) * Product(Tail(s))

Range(s) == {s[i] : i \in DOMAIN s}

\* mathematical primality, used only to state properties
IsPrimeMath(k) == k > 1 /\ \A d \in 2 .. (k - 1) : k % d # 0

\* the prime factorization of k >= 1 in ascending order, by trying every
\* divisor from d upwards; used only to state properties
RECURSIVE PrimeFactorsFrom(_, _)
PrimeFactorsFrom(k, d) ==
    IF k = 1 THEN <<>>
    ELSE IF k % d = 0 THEN <<d>> \o PrimeFactorsFrom(k \div d, d)
    ELSE PrimeFactorsFrom(k, d + 1)

PrimeFactorsAsc(k) == PrimeFactorsFrom(k, 2)

IsSortedAsc(s) == \A i, j \in DOMAIN s : i < j => s[i] <= s[j]

-----------------------------------------------------------------------------
(* The worker kernel (QUANTUM_WORKER_BLOB) *)

\* while ((a & 1n) === 0n) a >>= 1n;   (a # 0)
RECURSIVE StripTwos(_)
StripTwos(a) == IF a % 2 = 0 THEN StripTwos(a \div 2) ELSE a

\* while (((a | b) & 1n) === 0n) { a >>= 1n; b >>= 1n; shift++; }
\* returns 2^shift   (a # 0, b # 0)
RECURSIVE CommonTwos(_, _)
CommonTwos(a, b) ==
    IF a % 2 = 0 /\ b % 2 = 0 THEN 2 * CommonTwos(a \div 2, b \div 2) ELSE 1

\* while (b !== 0n) { strip b; if (a > b) swap; b -= a; }   (a odd)
RECURSIVE gcdLoop(_, _)
gcdLoop(a, b) ==
    IF b = 0 THEN a
    ELSE LET b1 == StripTwos(b)
         IN  gcdLoop(Min(a, b1), Max(a, b1) - Min(a, b1))

\* a gcd that returns a without the final << shift
gcdNoShift(a, b) ==
    IF a = 0 THEN b
    ELSE IF b = 0 THEN a
    ELSE LET sh == CommonTwos(a, b)
         IN  gcdLoop(StripTwos(a \div sh), b \div sh)

gcd(a, b) ==
    IF a = 0 THEN b
    ELSE IF b = 0 THEN a
    ELSE LET sh == CommonTwos(a, b)
         IN  gcdLoop(StripTwos(a \div sh), b \div sh) * sh

\* y = (y * y + c) % n
f(v, c, n) == (v * v + c) % n

\* the "advance by power of 2" phase: cnt applications of f
RECURSIVE Advance(_, _, _, _)
Advance(y, c, n, cnt) ==
    IF cnt = 0 THEN y ELSE Advance(f(y, c, n), c, n, cnt - 1)

\* one batch of the inner loop: limit steps of y, accumulating q; <<y, q>>
RECURSIVE Batch(_, _, _, _, _, _)
Batch(x, y, q, c, n, limit) ==
    IF limit = 0 THEN <<y, q>>
    ELSE LET y1 == f(y, c, n)
             diff == Abs(x - y1)
         IN  Batch(x, y1, (q * diff) % n, c, n, limit - 1)

\* an inner loop that saves its checkpoint when the batch is over
RECURSIVE InnerLoopLateCheckpoint(_, _, _)
InnerLoopLateCheckpoint(st, c, n) ==
    IF st.k < st.r /\ st.g = 1
    THEN LET limit == Min(st.r - st.k, m)
             b == Batch(st.x, st.y, 1, c, n, limit)
         IN  InnerLoopLateCheckpoint([st EXCEPT !.ys = b[1], !.xs = st.x,
                                                !.y = b[1], !.q = b[2],
                                                !.g = gcd(b[2], n),
                                                !.k = st.k + limit], c, n)
    ELSE st

\* an inner loop that takes the accumulated product itself for the divisor
RECURSIVE InnerLoopNoGcd(_, _, _)
InnerLoopNoGcd(st, c, n) ==
    IF st.k < st.r /\ st.g = 1
    THEN LET limit == Min(st.r - st.k, m)
             b == Batch(st.x, st.y, 1, c, n, limit)
         IN  InnerLoopNoGcd([st EXCEPT !.ys = st.y, !.xs = st.x,
                                       !.y = b[1], !.q = b[2],
                                       !.g = b[2],
                                       !.k = st.k + limit], c, n)
    ELSE st

\* while (k < r && g === 1n) { ... g = gcd(q, n); k += BigInt(limit); }
RECURSIVE InnerLoop(_, _, _)
InnerLoop(st, c, n) ==
    IF st.k < st.r /\ st.g = 1
    THEN LET limit == Min(st.r - st.k, m)
             b == Batch(st.x, st.y, 1, c, n, limit)
         IN  InnerLoop([st EXCEPT !.ys = st.y, !.xs = st.x,
                                  !.y = b[1], !.q = b[2],
                                  !.g = gcd(b[2], n),
                                  !.k = st.k + limit], c, n)
    ELSE st

\* while (g === 1n && steps < STEPS_LIMIT) { x = y; ...; r <<= 1n; }
RECURSIVE OuterLoop(_, _, _)
OuterLoop(st, c, n) ==
    IF st.g = 1 /\ st.steps < STEPS_LIMIT
    THEN LET y1 == Advance(st.y, c, n, st.r)
             s1 == InnerLoop([st EXCEPT !.x = st.y, !.y = y1,
                                        !.steps = st.steps + st.r,
                                        !.k = 0], c, n)
         IN  OuterLoop([s1 EXCEPT !.r = 2 * s1.r], c, n)
    ELSE st

\* if (g === n) while (true) { ys = f(ys); g = gcd(|xs - ys|, n); if (g > 1n) break; }
RECURSIVE Backtrack(_, _, _, _)
Backtrack(xs, ys, c, n) ==
    LET ys1 == f(ys, c, n)
        g == gcd(Abs(xs - ys1), n)
    IN  IF g > 1 THEN g ELSE Backtrack(xs, ys1, c, n)

solveRawBrent(constantC, startY, n) ==
    LET st == OuterLoop([x |-> startY, y |-> startY, g |-> 1, r |-> 1,
                         q |-> 1, xs |-> startY, ys |-> startY,
                         steps |-> 0, k |-> 0], constantC, n)
    IN  IF st.g = n THEN Backtrack(st.xs, st.ys, constantC, n) ELSE st.g

\* the inner loop of the doubling with r = 2^t, entered as the outer loop
\* enters it when every earlier batch gave g = 1: x is the iterate of index
\* 2r - 2 of startY and y the one r steps further
IterationAt(n, c, startY, t) ==
    LET r == 2 ^ t
        y0 == Advance(startY, c, n, 2 * r - 2)
    IN  InnerLoop([x |-> y0, y |-> Advance(y0, c, n, r), g |-> 1, r |-> r,
                   q |-> 1, xs |-> y0, ys |-> y0, steps |-> 0, k |-> 0], c, n)

\* the number of steps of the last batch the inner loop ran
LastBatch(st) == IF st.k % m = 0 THEN m ELSE st.k % m

\* the backtracking loop run for at most left steps: <<g, steps taken>>,
\* g = 1 when no step within left gave a gcd above 1
RECURSIVE Replay(_, _, _, _, _)
Replay(xs, ys, c, n, left) ==
    IF left = 0 THEN <<1, 0>>
    ELSE LET ys1 == f(ys, c, n)
             g == gcd(Abs(xs - ys1), n)
         IN  IF g > 1 THEN <<g, 1>>
             ELSE LET rest == Replay(xs, ys1, c, n, left - 1)
                  IN  <<rest[1], rest[2] + 1>>

\* a worker that posts the result of its first search, without the fallback
WorkerMessageNoRetry(n, c0, y0) ==
    LET fac == solveRawBrent(c0, y0, n)
    IN  IF fac > 1 /\ fac < n THEN fac ELSE Null

\* a worker that posts whatever its search returned
WorkerMessageUnchecked(n, c0, y0) ==
    LET first == solveRawBrent(c0, y0, n)
    IN  IF first = 1 \/ first = n
        THEN solveRawBrent(c0 + 3, y0, n)
        ELSE first

\* self.onmessage: the value of the factor field of the one message posted
WorkerMessage(n, c0, y0) ==
    LET first == solveRawBrent(c0, y0, n)
        fac == IF first = 1 \/ first = n
               THEN solveRawBrent(c0 + 3, y0, n)
               ELSE first
    IN  IF fac > 1 /\ fac < n THEN fac ELSE Null

-----------------------------------------------------------------------------
(* QuantumFactoringArchitect.power and isPrime *)

\* while (exp > 0n) { if (exp % 2n === 1n) res = res*base % mod; ... }
RECURSIVE powerLoop(_, _, _, _)
powerLoop(res, base, exp, mod) ==
    IF exp > 0
    THEN powerLoop(IF exp % 2 = 1 THEN (res * base) % mod ELSE res,
                   (base * base) % mod, exp \div 2, mod)
    ELSE res

power(base, exp, mod) == powerLoop(1, base % mod, exp, mod)

\* while (d % 2n === 0n) { d /= 2n; s++; }  gives <<d, s>>
RECURSIVE Decompose(_, _)
Decompose(d, s) ==
    IF d % 2 = 0 THEN Decompose(d \div 2, s + 1) ELSE <<d, s>>

\* for (let r = 1n; r < s; r++) { x = power(x, 2n, n); if (x === n - 1n) ... }
\* TRUE when the witness proves n composite
RECURSIVE SquareLoop(_, _, _, _)
SquareLoop(x, r, s, n) ==
    IF r < s
    THEN LET x1 == power(x, 2, n)
         IN  IF x1 = n - 1 THEN FALSE ELSE SquareLoop(x1, r + 1, s, n)
    ELSE TRUE

\* a witness loop without the n <= a break
RECURSIVE WitnessLoopNoBreak(_, _, _, _)
WitnessLoopNoBreak(i, d, s, n) ==
    IF i > Len(bases) THEN TRUE
    ELSE LET x == power(bases[i], d, n)
         IN  IF x = 1 \/ x = n - 1 THEN WitnessLoopNoBreak(i + 1, d, s, n)
             ELSE IF SquareLoop(x, 1, s, n) THEN FALSE
             ELSE WitnessLoopNoBreak(i + 1, d, s, n)

\* for (const a of bases) { if (n <= a) break; ... }
RECURSIVE WitnessLoop(_, _, _, _)
WitnessLoop(i, d, s, n) ==
    IF i > Len(bases) THEN TRUE
    ELSE IF n <= bases[i] THEN TRUE
    ELSE LET x == power(bases[i], d, n)
         IN  IF x = 1 \/ x = n - 1 THEN WitnessLoop(i + 1, d, s, n)
             ELSE IF SquareLoop(x, 1, s, n) THEN FALSE
             ELSE WitnessLoop(i + 1, d, s, n)

isPrime(n) ==
    IF n < 2 THEN FALSE
    ELSE IF n = 2 \/ n = 3 THEN TRUE
    ELSE IF n % 2 = 0 THEN FALSE
    ELSE LET ds == Decompose(n - 1, 0)
         IN  WitnessLoop(1, ds[1], ds[2], n)

-----------------------------------------------------------------------------
(* findFactorParallel: the lanes of a round *)

\* const logicalCores = navigator.hardwareConcurrency || 4: the value on a
\* machine that does not report its cores (or reports four)
logicalCores == 4

\* const workerCount = Math.max(4, logicalCores)
workerCount == Max(MinWorkers, logicalCores)

Lanes == 0 .. (workerCount - 1)

\* A1 is a 19 x 6 matrix, so A1.flat() has 114 entries
A1Len == 114

\* the positions of flatA1 the lanes read
A1Index == {i % A1Len : i \in 3 .. (workerCount - 1)}
           \cup {(i * 3) % A1Len : i \in 3 .. (workerCount - 1)}

\* "Strategy: cover maximum polynomial space"
startC(i) ==
    IF i = 0 THEN 1 ELSE IF i = 1 THEN 3 ELSE IF i = 2 THEN 5
    ELSE flatA1[i % A1Len]

seedVal(i) ==
    IF i = 0 THEN 2 ELSE IF i = 1 THEN 5 ELSE IF i = 2 THEN 7
    ELSE flatA1[(i * 3) % A1Len] + i

WorkerStates == {"run", "sent", "idle", "dead", "deadSent"}

\* a worker that has not been terminated: computing ("run"), or idle after
\* posting, its message in flight ("sent") or delivered ("idle")
Alive(w) == w \in {"run", "sent", "idle"}

\* a round started without its setTimeout
NewRoundNoTimer(n) ==
    [n |-> n, resolved |-> FALSE, settled |-> Pending,
     activeWorkers |-> workerCount, timer |-> FALSE,
     workers |-> [i \in Lanes |-> "run"],
     msg |-> [i \in Lanes |-> Null]]

\* the state a round is in when the promise executor has run: every worker
\* created and started, the timer set
NewRound(n) ==
    [n |-> n, resolved |-> FALSE, settled |-> Pending,
     activeWorkers |-> workerCount, timer |-> TRUE,
     workers |-> [i \in Lanes |-> "run"],
     msg |-> [i \in Lanes |-> Null]]

\* worker.terminate(): the worker stops; a message it already posted may
\* still be in the main thread's task queue
Terminate(w) == IF w \in {"sent", "deadSent"} THEN "deadSent" ELSE "dead"

\* a cleanup that terminates nothing
cleanupNothing(ws) == ws

\* const cleanup = () => { workers.forEach(w => w.terminate()); }
cleanup(ws) == [i \in DOMAIN ws |-> Terminate(ws[i])]

\* resolve(v) on the round's promise: only the first call settles it
Settle(rd, v) == IF rd.settled = Pending THEN [rd EXCEPT !.settled = v] ELSE rd

\* the message has been taken from the task queue
Delivered(w) == IF w = "sent" THEN "idle" ELSE "dead"

\* the test of the coordinator on a lane message: if (factor) and
\* f !== n && f !== 1n
Accepts(n, fv) == fv # Null /\ fv # n /\ fv # 1

\* a worker.onmessage without its first line, if (resolved) return
onmessageNoGuard(rd, i) ==
    LET rd1 == [rd EXCEPT !.workers[i] = Delivered(rd.workers[i])]
        fv == rd.msg[i]
    IN  IF Accepts(rd.n, fv)
        THEN Settle([rd1 EXCEPT !.resolved = TRUE,
                                !.workers = cleanup(rd1.workers)], fv)
        ELSE LET rd2 == [rd1 EXCEPT !.activeWorkers = rd.activeWorkers - 1]
             IN  IF rd2.activeWorkers = 0 /\ ~rd2.resolved
                 THEN Settle(rd2, 0)
                 ELSE rd2

\* a worker.onmessage that gives up when one lane is still to report
onmessageEarlyExhaust(rd, i) ==
    LET rd1 == [rd EXCEPT !.workers[i] = Delivered(rd.workers[i])]
        fv == rd.msg[i]
    IN  IF rd.resolved THEN rd1
        ELSE IF Accepts(rd.n, fv)
        THEN Settle([rd1 EXCEPT !.resolved = TRUE,
                                !.workers = cleanup(rd1.workers)], fv)
        ELSE LET rd2 == [rd1 EXCEPT !.activeWorkers = rd.activeWorkers - 1]
             IN  IF rd2.activeWorkers <= 1 /\ ~rd2.resolved
                 THEN Settle(rd2, 0)
                 ELSE rd2

\* worker.onmessage of lane i applied to the round record rd
onmessage(rd, i) ==
    LET rd1 == [rd EXCEPT !.workers[i] = Delivered(rd.workers[i])]
        fv == rd.msg[i]
    IN  IF rd.resolved THEN rd1
        ELSE IF Accepts(rd.n, fv)
        THEN Settle([rd1 EXCEPT !.resolved = TRUE,
                                !.workers = cleanup(rd1.workers)], fv)
        ELSE LET rd2 == [rd1 EXCEPT !.activeWorkers = rd.activeWorkers - 1]
             IN  IF rd2.activeWorkers = 0 /\ ~rd2.resolved
                 THEN Settle(rd2, 0)
                 ELSE rd2

\* the setTimeout callback without its cleanup() call
ontimeoutNoCleanup(rd) ==
    LET rd1 == [rd EXCEPT !.timer = FALSE]
    IN  IF ~rd.resolved
        THEN Settle([rd1 EXCEPT !.resolved = TRUE], 0)
        ELSE rd1

\* the setTimeout callback applied to the round record rd
ontimeout(rd) ==
    LET rd1 == [rd EXCEPT !.timer = FALSE]
    IN  IF ~rd.resolved
        THEN Settle([rd1 EXCEPT !.resolved = TRUE,
                                !.workers = cleanup(rd1.workers)], 0)
        ELSE rd1

-----------------------------------------------------------------------------
(* factorizeAsync and analyzeNumber: pure parts *)

\* a sieve that leaves out the first prime of the basis
RECURSIVE TrialDivideSkipTwo(_, _, _)
TrialDivideSkipTwo(acc, temp, i) ==
    IF i > Len(smallBasis) THEN <<acc, temp>>
    ELSE IF i > 1 /\ temp % smallBasis[i] = 0
         THEN TrialDivideSkipTwo(Append(acc, smallBasis[i]),
                                 temp \div smallBasis[i], i)
         ELSE TrialDivideSkipTwo(acc, temp, i + 1)

\* a sieve that divides by each prime at most once (if for while)
RECURSIVE TrialDivideOnce(_, _, _)
TrialDivideOnce(acc, temp, i) ==
    IF i > Len(smallBasis) THEN <<acc, temp>>
    ELSE IF temp % smallBasis[i] = 0
         THEN TrialDivideOnce(Append(acc, smallBasis[i]),
                              temp \div smallBasis[i], i + 1)
         ELSE TrialDivideOnce(acc, temp, i + 1)

\* for (const p of smallBasis) while (temp % p === 0n) { push p; temp /= p }
\* gives <<factors, temp>>
RECURSIVE TrialDivide(_, _, _)
TrialDivide(acc, temp, i) ==
    IF i > Len(smallBasis) THEN <<acc, temp>>
    ELSE IF temp % smallBasis[i] = 0
         THEN TrialDivide(Append(acc, smallBasis[i]), temp \div smallBasis[i], i)
         ELSE TrialDivide(acc, temp, i + 1)

\* an insertion under the comparator with its two signs exchanged
RECURSIVE InsertReversed(_, _)
InsertReversed(s, v) ==
    IF s = <<>> THEN <<v>>
    ELSE IF v > Head(s) THEN <<v>> \o s
    ELSE <<Head(s)>> \o InsertReversed(Tail(s), v)

\* factors.sort((a, b) => (a < b ? -1 : a > b ? 1 : 0))
RECURSIVE Insert(_, _)
Insert(s, v) ==
    IF s = <<>> THEN <<v>>
    ELSE IF v < Head(s) THEN <<v>> \o s
    ELSE <<Head(s)>> \o Insert(Tail(s), v)

RECURSIVE SortAsc(_)
SortAsc(s) == IF s = <<>> THEN <<>> ELSE Insert(SortAsc(Tail(s)), Head(s))

\* analyzeNumber, step 8: the classification of the factor list
Classify(nBig, realFactorsBig) ==
    IF nBig = 1 THEN "UNIT"
    ELSE IF Len(realFactorsBig) = 1 /\ realFactorsBig[1] = nBig
    THEN IF isPrime(nBig) THEN "PRIME" ELSE "NON_PRIME_UNSTABLE"
    ELSE IF Len(realFactorsBig) = 2 THEN "SEMIPRIME"
    ELSE "COMPOSITE"

-----------------------------------------------------------------------------
(* The state machine *)

\* callbacks run only when the main thread is idle
MainIdle == pc \in {"await", "done"}

\* the state of a part of the program that a specification does not run
EngineIdle ==
    /\ nVal = 0 /\ pc = "off" /\ forged = FALSE
    /\ flatA1 = [i \in A1Index |-> 0]
    /\ factors = <<>> /\ queue = <<>> /\ current = 0 /\ factor = Pending
    /\ rounds = <<>> /\ result = <<>> /\ classification = ""
    /\ unresolved = <<>> /\ pops = <<>>

PrimeIdle == arg = 0 /\ verdict = "none"

LaunchIdle == hw = 0 /\ launch = <<>>

AppIdle ==
    /\ mode = "single" /\ inputA = <<>> /\ inputB = <<>>
    /\ reportA = NoReport /\ reportB = NoReport
    /\ computing = FALSE /\ error = NoError
    /\ call = NoCall /\ invoked = NoInvocation
    /\ toggled = FALSE

KernelIdle == probe = <<>> /\ outcome = <<>>

PairIdle == calls = <<>> /\ pool = <<>>

Init ==
    /\ PrimeIdle /\ LaunchIdle /\ AppIdle /\ KernelIdle /\ PairIdle
    /\ nVal \in Inputs
    /\ flatA1 \in [A1Index -> 0 .. MaxA1]
    /\ forged = FALSE
    /\ pc = "call"
    /\ factors = <<>>
    /\ queue = <<>>
    /\ current = 0
    /\ factor = Pending
    /\ rounds = <<>>
    /\ result = <<>>
    /\ classification = ""
    /\ unresolved = <<>>
    /\ pops = <<>>

\* an entry without the nVal === 1n return
CallNoUnit ==
    /\ pc = "call"
    /\ IF nVal < 1
       THEN /\ result' = <<>>
            /\ pc' = "classify"
            /\ UNCHANGED <<factors, queue>>
       ELSE LET td == TrialDivide(<<>>, nVal, 1)
            IN  /\ factors' = td[1]
                /\ queue' = IF td[2] > 1 THEN <<td[2]>> ELSE <<>>
                /\ pc' = "loop"
                /\ UNCHANGED result
    /\ UNCHANGED <<primeVars, launchVars, appVars, kernelVars, pairVars, nVal, current, factor, rounds, flatA1, forged,
                   classification, unresolved, pops>>

\* analyzeNumber calls factorizeAsync: the early returns and the sieve
Call ==
    /\ pc = "call"
    /\ IF nVal < 1
       THEN /\ result' = <<>>
            /\ pc' = "classify"
            /\ UNCHANGED <<factors, queue>>
       ELSE IF nVal = 1
       THEN /\ result' = <<1>>
            /\ pc' = "classify"
            /\ UNCHANGED <<factors, queue>>
       ELSE LET td == TrialDivide(<<>>, nVal, 1)
            IN  /\ factors' = td[1]
                /\ queue' = IF td[2] > 1 THEN <<td[2]>> ELSE <<>>
                /\ pc' = "loop"
                /\ UNCHANGED result
    /\ UNCHANGED <<primeVars, launchVars, appVars, kernelVars, pairVars, nVal, current, factor, rounds, flatA1, forged,
                   classification, unresolved, pops>>

\* a return that hands out factors in the order they were appended
LoopReturnNoSort ==
    /\ pc = "loop"
    /\ queue = <<>>
    /\ result' = factors
    /\ pc' = "classify"
    /\ UNCHANGED <<primeVars, launchVars, appVars, kernelVars, pairVars, nVal, factors, queue, current, factor, rounds, flatA1,
                   forged, classification, unresolved, pops>>

\* while (queue.length > 0) is false: return factors.sort(...)
LoopReturn ==
    /\ pc = "loop"
    /\ queue = <<>>
    /\ result' = SortAsc(factors)
    /\ pc' = "classify"
    /\ UNCHANGED <<primeVars, launchVars, appVars, kernelVars, pairVars, nVal, factors, queue, current, factor, rounds, flatA1,
                   forged, classification, unresolved, pops>>

\* a prime branch that continues before it has pushed the prime
LoopPrimeDrop ==
    /\ pc = "loop"
    /\ queue # <<>>
    /\ isPrime(queue[Len(queue)])
    /\ queue' = SubSeq(queue, 1, Len(queue) - 1)
    /\ UNCHANGED <<primeVars, launchVars, appVars, kernelVars, pairVars, nVal, pc, factors, current, factor, rounds, flatA1, forged,
                   result, classification, unresolved, pops>>

\* const current = queue.pop(); if (this.isPrime(current)) { push; continue }
LoopPrime ==
    /\ pc = "loop"
    /\ queue # <<>>
    /\ isPrime(queue[Len(queue)])
    /\ factors' = Append(factors, queue[Len(queue)])
    /\ queue' = SubSeq(queue, 1, Len(queue) - 1)
    /\ UNCHANGED <<primeVars, launchVars, appVars, kernelVars, pairVars, nVal, pc, current, factor, rounds, flatA1, forged, result,
                   classification, unresolved, pops>>

\* const current = queue.pop(); not prime: await findFactorParallel(current),
\* whose two early returns resolve at once and which otherwise starts a round
LoopSearch ==
    /\ pc = "loop"
    /\ queue # <<>>
    /\ ~isPrime(queue[Len(queue)])
    /\ current' = queue[Len(queue)]
    /\ queue' = SubSeq(queue, 1, Len(queue) - 1)
    /\ pops' = Append(pops, current')
    /\ IF current' % 2 = 0
       THEN /\ factor' = 2
            /\ pc' = "resume"
            /\ UNCHANGED rounds
       ELSE IF isPrime(current')
       THEN /\ factor' = current'
            /\ pc' = "resume"
            /\ UNCHANGED rounds
       ELSE /\ rounds' = Append(rounds, NewRound(current'))
            /\ pc' = "await"
            /\ UNCHANGED factor
    /\ UNCHANGED <<primeVars, launchVars, appVars, kernelVars, pairVars, nVal, factors, flatA1, forged, result, classification,
                   unresolved>>

\* a continuation that queues only the cofactor and loses the divisor
ResumeDropDivisor ==
    /\ pc = "resume"
    /\ IF factor = 0 \/ factor = current
       THEN /\ factors' = Append(factors, current)
            /\ unresolved' = Append(unresolved, current)
            /\ UNCHANGED queue
       ELSE /\ queue' = queue \o <<current \div factor>>
            /\ UNCHANGED <<factors, unresolved>>
    /\ pc' = "loop"
    /\ current' = 0
    /\ factor' = Pending
    /\ UNCHANGED <<primeVars, launchVars, appVars, kernelVars, pairVars, nVal, rounds, flatA1, forged, result, classification, pops>>

\* a continuation that trusts both parts to be prime
ResumeNoRecheck ==
    /\ pc = "resume"
    /\ IF factor = 0 \/ factor = current
       THEN /\ factors' = Append(factors, current)
            /\ unresolved' = Append(unresolved, current)
       ELSE /\ factors' = factors \o <<factor, current \div factor>>
            /\ UNCHANGED unresolved
    /\ pc' = "loop"
    /\ current' = 0
    /\ factor' = Pending
    /\ UNCHANGED <<primeVars, launchVars, appVars, kernelVars, pairVars, nVal, queue, rounds, flatA1, forged, result,
                   classification, pops>>

\* a continuation that puts a cofactor it could not split back on the queue
ResumeRetry ==
    /\ pc = "resume"
    /\ IF factor = 0 \/ factor = current
       THEN /\ queue' = Append(queue, current)
       ELSE /\ queue' = queue \o <<factor, current \div factor>>
    /\ pc' = "loop"
    /\ current' = 0
    /\ factor' = Pending
    /\ UNCHANGED <<primeVars, launchVars, appVars, kernelVars, pairVars, nVal, factors, unresolved, rounds, flatA1, forged, result,
                   classification, pops>>

\* a continuation that queues the divisor and loses the cofactor
ResumeDropCofactor ==
    /\ pc = "resume"
    /\ IF factor = 0 \/ factor = current
       THEN /\ factors' = Append(factors, current)
            /\ unresolved' = Append(unresolved, current)
            /\ UNCHANGED queue
       ELSE /\ queue' = queue \o <<factor>>
            /\ UNCHANGED <<factors, unresolved>>
    /\ pc' = "loop"
    /\ current' = 0
    /\ factor' = Pending
    /\ UNCHANGED <<primeVars, launchVars, appVars, kernelVars, pairVars, nVal, rounds, flatA1, forged, result, classification, pops>>

\* the continuation after the await: unresolved, or push both parts
Resume ==
    /\ pc = "resume"
    /\ IF factor = 0 \/ factor = current
       THEN /\ factors' = Append(factors, current)
            /\ unresolved' = Append(unresolved, current)
            /\ UNCHANGED queue
       ELSE /\ queue' = queue \o <<factor, current \div factor>>
            /\ UNCHANGED <<factors, unresolved>>
    /\ pc' = "loop"
    /\ current' = 0
    /\ factor' = Pending
    /\ UNCHANGED <<primeVars, launchVars, appVars, kernelVars, pairVars, nVal, rounds, flatA1, forged, result, classification, pops>>

\* the round r's promise has just been settled: the awaiting call resumes
Wake(r, rd) ==
    IF rounds[r].settled = Pending /\ rd.settled # Pending
    THEN /\ pc' = "resume"
         /\ factor' = rd.settled
    ELSE UNCHANGED <<pc, factor>>

\* a worker finishes self.onmessage and posts its one message
LanePost(r, i) ==
    /\ rounds[r].workers[i] = "run"
    /\ rounds' = [rounds EXCEPT
                    ![r].workers[i] = "sent",
                    ![r].msg[i] = WorkerMessage(rounds[r].n, startC(i), seedVal(i))]
    /\ UNCHANGED <<primeVars, launchVars, appVars, kernelVars, pairVars, nVal, pc, factors, queue, current, factor, flatA1, forged,
                   result, classification, unresolved, pops>>

\* the main thread runs worker.onmessage for the message of lane i
OnMessage(r, i) ==
    /\ MainIdle
    /\ rounds[r].workers[i] \in {"sent", "deadSent"}
    /\ LET rd == onmessage(rounds[r], i)
       IN  /\ rounds' = [rounds EXCEPT ![r] = rd]
           /\ Wake(r, rd)
    /\ UNCHANGED <<primeVars, launchVars, appVars, kernelVars, pairVars, nVal, factors, queue, current, flatA1, forged, result,
                   classification, unresolved, pops>>

\* a timer whose cleanup() works on one list of workers kept for all rounds
TimerFireSharedWorkers(r) ==
    /\ MainIdle
    /\ rounds[r].timer
    /\ LET rd == ontimeout(rounds[r])
       IN  /\ rounds' = [q \in DOMAIN rounds |->
                            IF q = r THEN rd
                            ELSE [rounds[q] EXCEPT
                                     !.workers = cleanup(rounds[q].workers)]]
           /\ Wake(r, rd)
    /\ UNCHANGED <<primeVars, launchVars, appVars, kernelVars, pairVars, nVal, factors, queue, current, flatA1, forged, result,
                   classification, unresolved, pops>>

\* the main thread runs the setTimeout callback of round r
TimerFire(r) ==
    /\ MainIdle
    /\ rounds[r].timer
    /\ LET rd == ontimeout(rounds[r])
       IN  /\ rounds' = [rounds EXCEPT ![r] = rd]
           /\ Wake(r, rd)
    /\ UNCHANGED <<primeVars, launchVars, appVars, kernelVars, pairVars, nVal, factors, queue, current, flatA1, forged, result,
                   classification, unresolved, pops>>

\* analyzeNumber, after factorizeAsync has returned: step 8
Report ==
    /\ pc = "classify"
    /\ classification' = Classify(nVal, result)
    /\ pc' = "done"
    /\ UNCHANGED <<primeVars, launchVars, appVars, kernelVars, pairVars, nVal, factors, queue, current, factor, rounds, flatA1,
                   forged, result, unresolved, pops>>

\* the inputs of the message-injection harness
ForgedInputs == {841}

\* values a message can carry that are no proper divisor of n: the two
\* degenerate ones and one strictly between 1 and n (419 for 841)
ForgedValues(n) == {1, n, (n \div 2) - 1}

InitForged ==
    /\ PrimeIdle /\ LaunchIdle /\ AppIdle /\ KernelIdle /\ PairIdle
    /\ nVal \in ForgedInputs
    /\ flatA1 \in [A1Index -> 0 .. MaxA1]
    /\ forged = TRUE
    /\ pc = "call"
    /\ factors = <<>>
    /\ queue = <<>>
    /\ current = 0
    /\ factor = Pending
    /\ rounds = <<>>
    /\ result = <<>>
    /\ classification = ""
    /\ unresolved = <<>>
    /\ pops = <<>>

\* worker.onmessage receives e.data from outside the main script: a message
\* of lane i whose factor field is any value, not the kernel's
LanePostForged(r, i) ==
    /\ forged
    /\ rounds[r].workers[i] = "run"
    /\ \E v \in ForgedValues(rounds[r].n) :
         rounds' = [rounds EXCEPT ![r].workers[i] = "sent", ![r].msg[i] = v]
    /\ UNCHANGED <<primeVars, launchVars, appVars, kernelVars, pairVars, nVal, pc, factors, queue, current, factor, flatA1, forged,
                   result, classification, unresolved, pops>>

\* the steps of the main thread inside the call
MainStep == Call \/ LoopReturn \/ LoopPrime \/ LoopSearch \/ Resume \/ Report

Timers == \E r \in DOMAIN rounds : TimerFire(r)

Next ==
    \/ MainStep
    \/ \E r \in DOMAIN rounds : \E i \in Lanes : LanePost(r, i)
    \/ \E r \in DOMAIN rounds : \E i \in Lanes : OnMessage(r, i)
    \/ Timers

Spec == Init /\ [][Next]_vars

\* the event loop runs a ready continuation and a due timer
FairSpec == Spec /\ WF_vars(MainStep) /\ WF_vars(Timers)

NextForged ==
    \/ Next
    \/ \E r \in DOMAIN rounds : \E i \in Lanes : LanePostForged(r, i)

\* the coordinator against arbitrary lane messages
SpecForged == InitForged /\ [][NextForged]_vars

-----------------------------------------------------------------------------
(* isPrime called on its own *)

InitIsPrime ==
    /\ EngineIdle /\ LaunchIdle /\ AppIdle /\ KernelIdle /\ PairIdle
    /\ arg \in -2 .. MaxPrimeArg
    /\ verdict = "none"

\* architect.isPrime(arg) returns
CallIsPrime ==
    /\ verdict = "none"
    /\ verdict' = (IF isPrime(arg) THEN "true" ELSE "false")
    /\ UNCHANGED <<engineVars, launchVars, appVars, kernelVars, pairVars, arg>>

SpecIsPrime == InitIsPrime /\ [][CallIsPrime]_vars

-----------------------------------------------------------------------------
(* Two factorizeAsync calls on the module's one architect.  factors, queue,
   current and factor are locals of a call; workers, activeWorkers, resolved
   and cleanup are locals of one findFactorParallel call, i.e. of one round.
   The main thread runs one call's code at a time, and callbacks only when
   no call is in the middle of its code. *)

CallIds == {1, 2}

\* the rounds created by call id, as indexes into pool
Owned(id) == Range(calls[id].rounds)

\* no other call is in the middle of its code
MayRun(id) == \A o \in CallIds \ {id} : calls[o].pc # "loop"

\* the main thread is free for a message or timer callback
PairMainIdle == \A id \in CallIds : calls[id].pc \in {"call", "await", "done"}

InitPair ==
    /\ EngineIdle /\ PrimeIdle /\ LaunchIdle /\ AppIdle /\ KernelIdle
    /\ \E ns \in PairInputs :
          calls = [id \in CallIds |->
                     [n |-> ns[id], pc |-> "call", factors |-> <<>>,
                      queue |-> <<>>, current |-> 0, factor |-> Pending,
                      result |-> <<>>, rounds |-> <<>>]]
    /\ pool = <<>>

\* factorizeAsync(n) is called: the early returns and the sieve
PairCall(id) ==
    /\ calls[id].pc = "call"
    /\ MayRun(id)
    /\ LET cl == calls[id]
           td == TrialDivide(<<>>, cl.n, 1)
       IN  calls' = [calls EXCEPT ![id] =
              IF cl.n < 1 THEN [cl EXCEPT !.result = <<>>, !.pc = "done"]
              ELSE IF cl.n = 1 THEN [cl EXCEPT !.result = <<1>>, !.pc = "done"]
              ELSE [cl EXCEPT !.factors = td[1],
                              !.queue = IF td[2] > 1 THEN <<td[2]>> ELSE <<>>,
                              !.pc = "loop"]]
    /\ UNCHANGED <<engineVars, primeVars, launchVars, appVars, kernelVars, pool>>

\* while (queue.length > 0) is false: return factors.sort(...)
PairLoopReturn(id) ==
    /\ calls[id].pc = "loop"
    /\ calls[id].queue = <<>>
    /\ calls' = [calls EXCEPT ![id].result = SortAsc(calls[id].factors),
                              ![id].pc = "done"]
    /\ UNCHANGED <<engineVars, primeVars, launchVars, appVars, kernelVars, pool>>

\* const current = queue.pop(); if (this.isPrime(current)) { push; continue }
PairLoopPrime(id) ==
    /\ calls[id].pc = "loop"
    /\ calls[id].queue # <<>>
    /\ LET q == calls[id].queue
       IN  /\ isPrime(q[Len(q)])
           /\ calls' = [calls EXCEPT
                          ![id].factors = Append(calls[id].factors, q[Len(q)]),
                          ![id].queue = SubSeq(q, 1, Len(q) - 1)]
    /\ UNCHANGED <<engineVars, primeVars, launchVars, appVars, kernelVars, pool>>

\* const current = queue.pop(); not prime: await findFactorParallel(current)
PairLoopSearch(id) ==
    /\ calls[id].pc = "loop"
    /\ calls[id].queue # <<>>
    /\ LET q == calls[id].queue
           cur == q[Len(q)]
           cl == [calls[id] EXCEPT !.current = cur,
                                   !.queue = SubSeq(q, 1, Len(q) - 1)]
       IN  /\ ~isPrime(cur)
           /\ IF cur % 2 = 0
              THEN /\ calls' = [calls EXCEPT ![id] =
                                  [cl EXCEPT !.factor = 2, !.pc = "resume"]]
                   /\ UNCHANGED pool
              ELSE IF isPrime(cur)
              THEN /\ calls' = [calls EXCEPT ![id] =
                                  [cl EXCEPT !.factor = cur, !.pc = "resume"]]
                   /\ UNCHANGED pool
              ELSE /\ pool' = Append(pool, NewRound(cur))
                   /\ calls' = [calls EXCEPT ![id] =
                                  [cl EXCEPT !.pc = "await",
                                             !.rounds = Append(cl.rounds,
                                                               Len(pool) + 1)]]
    /\ UNCHANGED <<engineVars, primeVars, launchVars, appVars, kernelVars>>

\* a continuation that pushes the two parts on the queue of the other call,
\* as if the queue were kept in the architect
PairResumeSharedQueue(id) ==
    /\ calls[id].pc = "resume"
    /\ MayRun(id)
    /\ LET cl == calls[id]
           o == CHOOSE x \in CallIds : x # id
       IN  IF cl.factor = 0 \/ cl.factor = cl.current
           THEN calls' = [calls EXCEPT ![id] =
                   [cl EXCEPT !.factors = Append(cl.factors, cl.current),
                              !.pc = "loop", !.current = 0,
                              !.factor = Pending]]
           ELSE calls' = [calls EXCEPT
                   ![id] = [cl EXCEPT !.pc = "loop", !.current = 0,
                                      !.factor = Pending],
                   ![o].queue = calls[o].queue
                                   \o <<cl.factor, cl.current \div cl.factor>>]
    /\ UNCHANGED <<engineVars, primeVars, launchVars, appVars, kernelVars, pool>>

\* the continuation after the await: unresolved, or push both parts
PairResume(id) ==
    /\ calls[id].pc = "resume"
    /\ MayRun(id)
    /\ LET cl == calls[id]
       IN  calls' = [calls EXCEPT ![id] =
              IF cl.factor = 0 \/ cl.factor = cl.current
              THEN [cl EXCEPT !.factors = Append(cl.factors, cl.current),
                              !.pc = "loop", !.current = 0, !.factor = Pending]
              ELSE [cl EXCEPT !.queue = cl.queue
                                 \o <<cl.factor, cl.current \div cl.factor>>,
                              !.pc = "loop", !.current = 0, !.factor = Pending]]
    /\ UNCHANGED <<engineVars, primeVars, launchVars, appVars, kernelVars, pool>>

\* the promise of round r has just been settled: the call awaiting it resumes
PairWake(r, rd) ==
    IF pool[r].settled = Pending /\ rd.settled # Pending
    THEN calls' = [id \in CallIds |->
                     IF r \in Owned(id) /\ calls[id].pc = "await"
                     THEN [calls[id] EXCEPT !.pc = "resume",
                                            !.factor = rd.settled]
                     ELSE calls[id]]
    ELSE UNCHANGED calls

\* a worker of round r finishes and posts its one message
PairLanePost(r, i) ==
    /\ pool[r].workers[i] = "run"
    /\ pool' = [pool EXCEPT
                  ![r].workers[i] = "sent",
                  ![r].msg[i] = WorkerMessage(pool[r].n, startC(i), seedVal(i))]
    /\ UNCHANGED <<engineVars, primeVars, launchVars, appVars, kernelVars, calls>>

\* the main thread runs worker.onmessage for the message of lane i of round r
PairOnMessage(r, i) ==
    /\ PairMainIdle
    /\ pool[r].workers[i] \in {"sent", "deadSent"}
    /\ LET rd == onmessage(pool[r], i)
       IN  /\ pool' = [pool EXCEPT ![r] = rd]
           /\ PairWake(r, rd)
    /\ UNCHANGED <<engineVars, primeVars, launchVars, appVars, kernelVars>>

\* a timer whose cleanup() works on one list of workers kept in the architect
PairTimerFireSharedWorkers(r) ==
    /\ PairMainIdle
    /\ pool[r].timer
    /\ LET rd == ontimeout(pool[r])
       IN  /\ pool' = [q \in DOMAIN pool |->
                          IF q = r THEN rd
                          ELSE IF ~pool[r].resolved
                          THEN [pool[q] EXCEPT !.workers = cleanup(pool[q].workers)]
                          ELSE pool[q]]
           /\ PairWake(r, rd)
    /\ UNCHANGED <<engineVars, primeVars, launchVars, appVars, kernelVars>>

\* the main thread runs the setTimeout callback of round r
PairTimerFire(r) ==
    /\ PairMainIdle
    /\ pool[r].timer
    /\ LET rd == ontimeout(pool[r])
       IN  /\ pool' = [pool EXCEPT ![r] = rd]
           /\ PairWake(r, rd)
    /\ UNCHANGED <<engineVars, primeVars, launchVars, appVars, kernelVars>>

NextPair ==
    \/ \E id \in CallIds : PairCall(id)
    \/ \E id \in CallIds : PairLoopReturn(id)
    \/ \E id \in CallIds : PairLoopPrime(id)
    \/ \E id \in CallIds : PairLoopSearch(id)
    \/ \E id \in CallIds : PairResume(id)
    \/ \E r \in DOMAIN pool : \E i \in Lanes : PairLanePost(r, i)
    \/ \E r \in DOMAIN pool : \E i \in Lanes : PairOnMessage(r, i)
    \/ \E r \in DOMAIN pool : PairTimerFire(r)

SpecPair == InitPair /\ [][NextPair]_vars

-----------------------------------------------------------------------------
(* The worker kernel called on its own *)

InitGcd ==
    /\ EngineIdle /\ PrimeIdle /\ LaunchIdle /\ AppIdle /\ PairIdle
    /\ probe \in [a : 0 .. MaxGcdArg, b : 0 .. MaxGcdArg]
    /\ outcome = <<>>

\* gcd(a, b) returns
CallGcd ==
    /\ outcome = <<>>
    /\ outcome' = <<gcd(probe.a, probe.b)>>
    /\ UNCHANGED <<engineVars, primeVars, launchVars, appVars, pairVars, probe>>

SpecGcd == InitGcd /\ [][CallGcd]_vars

InitBatch ==
    /\ EngineIdle /\ PrimeIdle /\ LaunchIdle /\ AppIdle /\ PairIdle
    /\ probe \in [n : 2 .. MaxModulus, c : 0 .. MaxConstant,
                   startY : 0 .. MaxSeed, t : 0 .. MaxDoublings]
    /\ outcome = <<>>

\* the inner loop of one doubling runs and, when it ends with g = n, the
\* backtracking loop replays from the checkpoint (one step more than the
\* last batch at most, so that a loop that would go on is seen)
RunBatch ==
    /\ outcome = <<>>
    /\ LET st == IterationAt(probe.n, probe.c, probe.startY, probe.t)
           rp == IF st.g = probe.n
                 THEN Replay(st.xs, st.ys, probe.c, probe.n, LastBatch(st) + 1)
                 ELSE <<st.g, 0>>
       IN  outcome' = <<[g |-> st.g, batch |-> LastBatch(st),
                         found |-> rp[1], steps |-> rp[2]]>>
    /\ UNCHANGED <<engineVars, primeVars, launchVars, appVars, pairVars, probe>>

SpecBatch == InitBatch /\ [][RunBatch]_vars

-----------------------------------------------------------------------------
(* The lane launch of the earlier copy of findFactorParallel, whose workers
   take a column of A1 and a random seed *)

\* const logicalCores = navigator.hardwareConcurrency || 6
logicalCoresOr6(h) == IF h = 0 THEN 6 ELSE h

\* const workerCount = Math.max(6, logicalCores)
workerCountOf(h) == Max(6, logicalCoresOr6(h))

\* const columnIndex = i % 6; the worker's constants are A1_columns[columnIndex]
columnIndex(i) == i % 6

\* const seedVal = Math.floor(Math.random() * 1000) + 2 + i * 100
seedValOf(rnd, i) == rnd + 2 + i * 100

InitLaunch ==
    /\ EngineIdle /\ PrimeIdle /\ AppIdle /\ KernelIdle /\ PairIdle
    /\ hw \in 0 .. MaxCores
    /\ launch = <<>>

\* one pass of for (let i = 0; i < workerCount; i++): lane i is given its
\* column and seed
LaunchLane ==
    /\ Len(launch) < workerCountOf(hw)
    /\ \E rnd \in RandomSamples :
          LET i == Len(launch)
          IN  launch' = Append(launch, [columnIndex |-> columnIndex(i),
                                        seedVal |-> seedValOf(rnd, i)])
    /\ UNCHANGED <<engineVars, primeVars, appVars, kernelVars, pairVars, hw>>

SpecLaunch == InitLaunch /\ [][LaunchLane]_vars

-----------------------------------------------------------------------------
(* App: the input fields, the mode switch and handleAnalyze.  A handler runs
   to its first await in one step; handleAnalyze keeps the mode, inputA and
   inputB of the render it was created in. *)

DecimalDigits == {"0", "1", "2", "3", "4", "5", "6", "7", "8", "9"}

DigitValue(ch) ==
    CASE ch = "0" -> 0 [] ch = "1" -> 1 [] ch = "2" -> 2 [] ch = "3" -> 3
      [] ch = "4" -> 4 [] ch = "5" -> 5 [] ch = "6" -> 6 [] ch = "7" -> 7
      [] ch = "8" -> 8 [] ch = "9" -> 9

\* val.match(/^\d+$/)
MatchesDigits(val) == val # <<>> /\ \A k \in DOMAIN val : val[k] \in DecimalDigits

\* BigInt(val) for a string of digits
RECURSIVE BigIntOf(_)
BigIntOf(val) ==
    IF val = <<>> THEN 0
    ELSE 10 * BigIntOf(SubSeq(val, 1, Len(val) - 1)) + DigitValue(val[Len(val)])

\* a validateInput without the n >= 1n test
validateInputNoRange(val) == MatchesDigits(val)

validateInput(val) ==
    IF ~MatchesDigits(val) THEN FALSE ELSE BigIntOf(val) >= 1

ErrorInputA == "Input A must be a positive integer >= 1."

ErrorNoInputB == "Please enter a second number for comparison."

ErrorInputB == "Input B must be a positive integer >= 1."

ErrorComputation == "Computation error or timeout. Input might be too large."

\* the report analyzeNumber resolves with, reduced to its inputNumber field
ReportOf(nStr) == <<[inputNumber |-> nStr]>>

\* the page with a text already typed into field A (the initial value of the
\* source is one more text of digits, too long for the model's integers)
InitApp ==
    /\ EngineIdle /\ PrimeIdle /\ LaunchIdle /\ KernelIdle /\ PairIdle
    /\ mode = "single"
    /\ inputA \in InputStrings
    /\ inputB = <<>>
    /\ reportA = NoReport /\ reportB = NoReport
    /\ computing = FALSE
    /\ error = NoError
    /\ call = NoCall
    /\ invoked = NoInvocation
    /\ toggled = FALSE

\* onChange={(e) => setInputA(e.target.value)}
SetInputA ==
    /\ \E val \in InputStrings : inputA' = val
    /\ UNCHANGED <<engineVars, primeVars, launchVars, kernelVars, pairVars, mode, inputB, reportA,
                   reportB, computing, error, call, invoked, toggled>>

\* onChange={(e) => setInputB(e.target.value)}; the field exists in compare mode
SetInputB ==
    /\ mode = "compare"
    /\ \E val \in InputStrings : inputB' = val
    /\ UNCHANGED <<engineVars, primeVars, launchVars, kernelVars, pairVars, mode, inputA, reportA,
                   reportB, computing, error, call, invoked, toggled>>

\* the onClick of the mode switch
ToggleMode ==
    /\ mode' = (IF mode = "single" THEN "compare" ELSE "single")
    /\ reportA' = NoReport
    /\ reportB' = NoReport
    /\ toggled' = TRUE
    /\ UNCHANGED <<engineVars, primeVars, launchVars, kernelVars, pairVars, inputA, inputB,
                   computing, error, call, invoked>>

\* a handleAnalyze behind a button that is not disabled while computing
HandleAnalyzeNoGuard ==
    /\ toggled' = FALSE
    /\ reportA' = NoReport
    /\ reportB' = NoReport
    /\ IF ~validateInput(inputA)
       THEN /\ error' = ErrorInputA
            /\ UNCHANGED <<computing, call, invoked>>
       ELSE IF mode = "compare" /\ inputB = <<>>
       THEN /\ error' = ErrorNoInputB
            /\ UNCHANGED <<computing, call, invoked>>
       ELSE IF mode = "compare" /\ ~validateInput(inputB)
       THEN /\ error' = ErrorInputB
            /\ UNCHANGED <<computing, call, invoked>>
       ELSE /\ error' = NoError
            /\ computing' = TRUE
            /\ call' = [at |-> "A", mode |-> mode, inputA |-> inputA,
                        inputB |-> inputB]
            /\ invoked' = <<inputA>>
    /\ UNCHANGED <<engineVars, primeVars, launchVars, kernelVars, pairVars, mode, inputA, inputB>>

\* handleAnalyze, from the click (the button is disabled while computing) to
\* a return or to the await of analyzeNumber(inputA)
HandleAnalyze ==
    /\ ~computing
    /\ toggled' = FALSE
    /\ reportA' = NoReport
    /\ reportB' = NoReport
    /\ IF ~validateInput(inputA)
       THEN /\ error' = ErrorInputA
            /\ UNCHANGED <<computing, call, invoked>>
       ELSE IF mode = "compare" /\ inputB = <<>>
       THEN /\ error' = ErrorNoInputB
            /\ UNCHANGED <<computing, call, invoked>>
       ELSE IF mode = "compare" /\ ~validateInput(inputB)
       THEN /\ error' = ErrorInputB
            /\ UNCHANGED <<computing, call, invoked>>
       ELSE /\ error' = NoError
            /\ computing' = TRUE
            /\ call' = [at |-> "A", mode |-> mode, inputA |-> inputA,
                        inputB |-> inputB]
            /\ invoked' = <<inputA>>
    /\ UNCHANGED <<engineVars, primeVars, launchVars, kernelVars, pairVars, mode, inputA, inputB>>

\* catch { setError(...) } finally { setComputing(false) }
AnalyzeThrows ==
    /\ call # NoCall
    /\ error' = ErrorComputation
    /\ computing' = FALSE
    /\ call' = NoCall
    /\ invoked' = NoInvocation
    /\ UNCHANGED <<engineVars, primeVars, launchVars, kernelVars, pairVars, mode, inputA, inputB,
                   reportA, reportB, toggled>>

\* analyzeNumber(inputA) resolves: setReportA, then the second call or finally
AnalyzeAReturns ==
    /\ call # NoCall
    /\ call.at = "A"
    /\ reportA' = ReportOf(call.inputA)
    /\ IF call.mode = "compare" /\ call.inputB # <<>>
       THEN /\ call' = [call EXCEPT !.at = "B"]
            /\ invoked' = <<call.inputB>>
            /\ UNCHANGED computing
       ELSE /\ call' = NoCall
            /\ invoked' = NoInvocation
            /\ computing' = FALSE
    /\ UNCHANGED <<engineVars, primeVars, launchVars, kernelVars, pairVars, mode, inputA, inputB,
                   reportB, error, toggled>>

\* analyzeNumber(inputB) resolves: setReportB, finally
AnalyzeBReturns ==
    /\ call # NoCall
    /\ call.at = "B"
    /\ reportB' = ReportOf(call.inputB)
    /\ call' = NoCall
    /\ invoked' = NoInvocation
    /\ computing' = FALSE
    /\ UNCHANGED <<engineVars, primeVars, launchVars, kernelVars, pairVars, mode, inputA, inputB,
                   reportA, error, toggled>>

NextApp ==
    \/ SetInputA
    \/ SetInputB
    \/ ToggleMode
    \/ HandleAnalyze
    \/ AnalyzeThrows
    \/ AnalyzeAReturns
    \/ AnalyzeBReturns

SpecApp == InitApp /\ [][NextApp]_vars

-----------------------------------------------------------------------------
(* Properties *)

Returned == pc \in {"classify", "done"}

IsProperDivisor(n, g) == 1 < g /\ g < n /\ n % g = 0

\* the message of lane i of round r is taken from the task queue in this step
DeliveredNow(r, i) ==
    \/ rounds[r].workers[i] = "sent" /\ rounds'[r].workers[i] \in {"idle", "dead"}
    \/ rounds[r].workers[i] = "deadSent" /\ rounds'[r].workers[i] = "dead"

\* C1: for every n >= 1 and whatever way each round ended, the product of
\* the returned list equals n
ReconstructsInput ==
    (Returned /\ nVal >= 1) => Product(result) = nVal

\* a call has returned after one round found a divisor and another gave up
ReconstructsInputWitness ==
    /\ pc = "done"
    /\ nVal >= 1
    /\ \E r1, r2 \in DOMAIN rounds :
          rounds[r1].settled > 1 /\ rounds[r2].settled = 0

\* C2: every returned element passes isPrime, except the cofactors appended
\* because their round returned 0; nothing else composite is in the output
OnlyPrimesUnlessUnresolved ==
    (Returned /\ nVal >= 2) =>
        /\ \A i \in DOMAIN result :
              isPrime(result[i]) \/ result[i] \in Range(unresolved)
        /\ Cardinality({i \in DOMAIN result : ~isPrime(result[i])})
              = Len(unresolved)

\* a returned list that holds a prime and an unresolved cofactor
OnlyPrimesUnlessUnresolvedWitness ==
    /\ pc = "done"
    /\ unresolved # <<>>
    /\ \E i \in DOMAIN result : isPrime(result[i])

\* C3: a round resolves to 0 or to a proper divisor of its (odd composite)
\* target, under every interleaving of lane messages and the timer
RoundResultIsDivisor ==
    \A r \in DOMAIN rounds :
        \/ rounds[r].settled \in {Pending, 0}
        \/ IsProperDivisor(rounds[r].n, rounds[r].settled)

\* a round resolved with a divisor after another lane had reported failure
RoundResultIsDivisorWitness ==
    \E r \in DOMAIN rounds :
        /\ rounds[r].n % 2 = 1
        /\ ~IsPrimeMath(rounds[r].n)
        /\ rounds[r].settled > 1
        /\ rounds[r].activeWorkers < workerCount

DivisorExitTerminatesAll ==
    \A r \in DOMAIN rounds :
        rounds[r].settled > 0 =>
            \A i \in Lanes : ~Alive(rounds[r].workers[i])

\* a divisor was accepted while a sibling was still computing and another
\* sibling's message was still in flight
DivisorExitTerminatesAllWitness ==
    \E r \in DOMAIN rounds :
        /\ rounds[r].settled > 1
        /\ \E i \in Lanes : rounds[r].workers[i] = "dead" /\ rounds[r].msg[i] = Null
        /\ \E i \in Lanes : rounds[r].workers[i] = "deadSent"

\* C6: whenever a round has resolved, by any exit, every worker it launched
\* has been terminated
NoWorkerOutlivesRound ==
    \A r \in DOMAIN rounds :
        rounds[r].settled # Pending =>
            \A i \in Lanes : ~Alive(rounds[r].workers[i])

\* C7: a round whose lanes all reported failure has resolved to 0, and the
\* timer firing on an undecided round resolves it to 0 and terminates every
\* lane
FailureResolvesZero ==
    [][\A r \in DOMAIN rounds :
          /\ rounds'[r].activeWorkers = 0 => rounds'[r].settled = 0
          /\ (rounds[r].timer /\ ~rounds'[r].timer /\ ~rounds[r].resolved)
             => /\ rounds'[r].settled = 0
                /\ \A i \in Lanes : ~Alive(rounds'[r].workers[i])]_vars

\* the timer fired on a round in which one lane had failed, one message was
\* in flight and one lane was still computing
FailureResolvesZeroWitness ==
    \E r \in DOMAIN rounds :
        /\ ~rounds[r].timer
        /\ rounds[r].settled = 0
        /\ rounds[r].activeWorkers \in 1 .. (workerCount - 1)
        /\ \E i \in Lanes : rounds[r].workers[i] = "dead" /\ rounds[r].msg[i] = Null
        /\ \E i \in Lanes : rounds[r].workers[i] = "deadSent"

\* C8: each composite cofactor popped starts exactly one round, and when the
\* round returns 0 (or the cofactor) the cofactor goes to the output, the
\* queue keeps only what it held and no further round is started for it
OneRoundPerCofactor ==
    [][/\ Len(rounds') = Len(pops')
       /\ \A k \in DOMAIN rounds' : rounds'[k].n = pops'[k]
       /\ (pc = "resume" /\ (factor = 0 \/ factor = current))
          => /\ factors' = Append(factors, current)
             /\ queue' = queue
             /\ rounds' = rounds
             /\ pc' = "loop"]_vars

\* the failure branch has run while another cofactor was waiting in the queue
OneRoundPerCofactorWitness ==
    /\ pc = "loop"
    /\ unresolved # <<>>
    /\ queue # <<>>
    /\ Len(rounds) = 2

\* C9: factorizeAsync eventually returns, even if no lane ever reports
EventuallyReturns == <>(pc = "done")

\* a call has returned although no lane of its round ever posted a message
EventuallyReturnsWitness ==
    /\ pc = "done"
    /\ \E r \in DOMAIN rounds :
          /\ rounds[r].settled = 0
          /\ \A i \in Lanes : rounds[r].workers[i] = "dead" /\ rounds[r].msg[i] = Null

\* C10: a returned list that holds an unresolved composite is classified
\* NON_PRIME_UNSTABLE, also when resolved factors are present
UnresolvedIsFlagged ==
    (pc = "done" /\ unresolved # <<>>) => classification = "NON_PRIME_UNSTABLE"

\* C11: for a fixed n, whenever no round returned 0, the returned list is
\* the same whichever lane won each round and in whatever order messages came
SameListWhoeverWins ==
    (Returned /\ nVal >= 1 /\ \A r \in DOMAIN rounds : rounds[r].settled # 0)
        => result = (IF nVal = 1 THEN <<1>> ELSE PrimeFactorsAsc(nVal))

\* 899 has been returned after the lane that finds 29 won, while the other
\* lanes find 31
SameListWhoeverWinsWitness ==
    /\ pc = "done"
    /\ \E r \in DOMAIN rounds :
          /\ rounds[r].settled > 1
          /\ \E i \in Lanes :
                /\ WorkerMessage(rounds[r].n, startC(i), seedVal(i)) > 1
                /\ WorkerMessage(rounds[r].n, startC(i), seedVal(i))
                      # rounds[r].settled

\* C14: for n < 1 the call returns the empty list and for n = 1 the list [1],
\* and in both cases the sieve, the primality test and the lanes are not run
EarlyReturns ==
    [][(pc = "call" /\ nVal <= 1)
          => /\ result' = (IF nVal = 1 THEN <<1>> ELSE <<>>)
             /\ pc' = "classify"
             /\ factors' = <<>> /\ queue' = <<>>
             /\ rounds' = <<>> /\ pops' = <<>>]_vars

\* the call on 1 has returned [1]
EarlyReturnsWitness ==
    nVal = 1 /\ pc = "done" /\ result = <<1>> /\ rounds = <<>>

\* C15: the returned list is in non-decreasing order
ResultSortedAsc == Returned => IsSortedAsc(result)

\* a list was returned whose factors had been appended in descending order
ResultSortedAscWitness ==
    /\ pc = "done"
    /\ Len(factors) >= 2
    /\ ~IsSortedAsc(factors)
    /\ IsSortedAsc(result)

\* the part of k left when every power of a basis prime is divided out
RECURSIVE ResidualFrom(_, _)
ResidualFrom(k, i) ==
    IF i > Len(smallBasis) THEN k
    ELSE IF k % smallBasis[i] = 0 THEN ResidualFrom(k \div smallBasis[i], i)
    ELSE ResidualFrom(k, i + 1)

\* C16: for n >= 2 whose residual after trial division is 1 or passes
\* isPrime, the call returns the prime factorization of n in ascending order;
\* 2 -> [2], 17 -> [17], 91 -> [7, 13], 100 -> [2, 2, 5, 5]
SmallNumberOracle ==
    Returned =>
        /\ (nVal >= 2 /\ (ResidualFrom(nVal, 1) = 1 \/ isPrime(ResidualFrom(nVal, 1))))
              => result = PrimeFactorsAsc(nVal)
        /\ nVal = 2 => result = <<2>>
        /\ nVal = 17 => result = <<17>>
        /\ nVal = 91 => result = <<7, 13>>
        /\ nVal = 100 => result = <<2, 2, 5, 5>>

\* 100 has been returned without any round
SmallNumberOracleWitness ==
    nVal = 100 /\ pc = "done" /\ rounds = <<>> /\ Len(result) = 4

\* C18: after the sieve every factor appended is a basis prime, the residual
\* has no basis prime as a divisor, factors times residual is n, and the
\* residual is queued exactly when it is greater than 1
SieveStage ==
    [][(pc = "call" /\ nVal >= 2)
          => LET residual == nVal \div Product(factors')
             IN  /\ \A k \in DOMAIN factors' : factors'[k] \in Range(smallBasis)
                 /\ Product(factors') * residual = nVal
                 /\ \A k \in DOMAIN smallBasis : residual % smallBasis[k] # 0
                 /\ queue' = (IF residual > 1 THEN <<residual>> ELSE <<>>)]_vars

\* the sieve has taken 2 out of 1682 and queued the residual 841
SieveStageWitness ==
    pc = "loop" /\ rounds = <<>> /\ factors = <<2>> /\ queue = <<841>>

\* lane i of round r posts its message in this step
PostsNow(r, i) ==
    rounds[r].workers[i] = "run" /\ rounds'[r].workers[i] = "sent"

\* a search result the worker does not keep
Degenerate(n, g) == g = 1 \/ g = n

LanePostsOnce ==
    [][\A r \in DOMAIN rounds : \A i \in Lanes :
          LET n == rounds[r].n
              g == rounds'[r].msg[i]
          IN  /\ PostsNow(r, i)
                    => /\ g = Null \/ IsProperDivisor(n, g)
                       /\ g = Null
                            <=> ~\E c \in {startC(i), startC(i) + 3} :
                                   IsProperDivisor(n, solveRawBrent(c, seedVal(i), n))
              /\ rounds[r].workers[i] # "run"
                    => /\ rounds'[r].workers[i] # "run"
                       /\ rounds'[r].msg[i] = rounds[r].msg[i]
              /\ rounds[r].workers[i] = "run" /\ ~PostsNow(r, i)
                    => rounds'[r].msg[i] = Null]_vars

\* in one round a lane has posted a divisor and another lane has posted null
LanePostsOnceWitness ==
    \E r \in DOMAIN rounds : \E i, j \in Lanes :
        /\ rounds[r].workers[i] \in {"sent", "idle", "deadSent"}
        /\ IsProperDivisor(rounds[r].n, rounds[r].msg[i])
        /\ rounds[r].workers[j] \in {"sent", "idle", "deadSent"}
        /\ rounds[r].msg[j] = Null

\* C17: isPrime returns false for n < 2 and for even n > 2, true for 2 and 3,
\* and for every n up to MaxPrimeArg exactly when n is prime, the n that are
\* not greater than one of the bases included
IsPrimeExact ==
    verdict # "none" =>
        /\ arg < 2 => verdict = "false"
        /\ (arg > 2 /\ arg % 2 = 0) => verdict = "false"
        /\ arg \in {2, 3} => verdict = "true"
        /\ (verdict = "true") <=> IsPrimeMath(arg)

\* isPrime has accepted 37, the last of its own bases
IsPrimeExactWitness == arg = 37 /\ verdict = "true"

\* C12: in a round, whatever the worker count and the random draws, no two
\* lanes are launched with the same constants and the same seed
LaneParametersDistinct ==
    \A i, j \in DOMAIN launch : i # j => launch[i] # launch[j]

\* a text of decimal digits only that stands for a value of at least 1
IsDecimalAtLeastOne(val) ==
    /\ val # <<>>
    /\ \A k \in DOMAIN val : val[k] \in DecimalDigits
    /\ \E k \in DOMAIN val : val[k] # "0"

\* the inputs the mode md requires are digits only and at least 1
RequiredInputsValid(md, a, b) ==
    /\ IsDecimalAtLeastOne(a)
    /\ md = "compare" => (b # <<>> /\ IsDecimalAtLeastOne(b))

ValidationErrors == {ErrorInputA, ErrorNoInputB, ErrorInputB}

\* C20: handleAnalyze calls analyzeNumber only when every input its mode
\* requires (A; in compare mode A and a non-empty B) is digits only and at
\* least 1, and a handleAnalyze that finds an input invalid sets an error
\* message and leaves both reports null and computing false
ValidatedBeforeAnalysis ==
    [][/\ (HandleAnalyze /\ ~RequiredInputsValid(mode, inputA, inputB))
            => /\ error' \in ValidationErrors
               /\ reportA' = NoReport /\ reportB' = NoReport
               /\ computing' = FALSE
               /\ invoked' = NoInvocation
       /\ invoked' # NoInvocation
            => /\ IsDecimalAtLeastOne(invoked'[1])
               /\ call' # NoCall
               /\ RequiredInputsValid(call'.mode, call'.inputA, call'.inputB)]_vars

\* in compare mode with a valid A, a B that is not a number has been refused
ValidatedBeforeAnalysisWitness ==
    /\ mode = "compare"
    /\ IsDecimalAtLeastOne(inputA)
    /\ inputB = <<"7", "x">>
    /\ error = ErrorInputB
    /\ reportA = NoReport /\ reportB = NoReport
    /\ ~computing /\ invoked = NoInvocation

\* C23: at every iteration of the work loop the product of the factors
\* collected so far times the product of the queued cofactors is n
LoopProductIsInput ==
    pc = "loop" => Product(factors) * Product(queue) = nVal

\* the loop is entered again with a divisor and its cofactor both queued
LoopProductIsInputWitness ==
    pc = "loop" /\ Len(queue) = 2 /\ factors # <<>> /\ rounds # <<>>

\* k has no prime of the small basis as a divisor
CoprimeToBasis(k) == \A b \in DOMAIN smallBasis : k % smallBasis[b] # 0

\* C24: every cofactor placed in the queue is greater than 1 and divisible
\* by no prime of the small basis, so every search of the loop starts a
\* round (neither early exit of findFactorParallel is taken) and no round
\* hands back the cofactor itself
QueuedCofactorsAreHard ==
    /\ \A k \in DOMAIN queue : queue[k] > 1 /\ CoprimeToBasis(queue[k])
    /\ pc \in {"await", "resume"}
          => /\ current > 1 /\ CoprimeToBasis(current) /\ ~isPrime(current)
             /\ rounds # <<>>
             /\ rounds[Len(rounds)].n = current
             /\ Len(rounds) = Len(pops)
    /\ pc = "resume"
          => /\ factor = rounds[Len(rounds)].settled
             /\ factor # current

\* the cofactor 841 of 24389 has been queued and is searched in a second round
QueuedCofactorsAreHardWitness ==
    /\ nVal = 24389
    /\ pc = "await"
    /\ Len(rounds) = 2
    /\ current = 841

\* the timer of round r fires in this step
TimerFiresNow(r) == rounds[r].timer /\ ~rounds'[r].timer

\* C25: a timer that fires after its round has resolved leaves the round's
\* result as it was, touches no other round and does not wake the call
LateTimerChangesNothing ==
    [][\A r \in DOMAIN rounds :
          (TimerFiresNow(r) /\ rounds[r].settled # Pending)
              => /\ rounds'[r].settled = rounds[r].settled
                 /\ \A q \in DOMAIN rounds : q # r => rounds'[q] = rounds[q]
                 /\ UNCHANGED <<pc, factor, factors, queue, current, result>>]_vars

\* the timer of the first round has fired after that round gave a divisor,
\* while the lanes of the second round were unaffected and one still runs
LateTimerChangesNothingWitness ==
    /\ Len(rounds) = 2
    /\ rounds[1].settled > 1
    /\ ~rounds[1].timer
    /\ rounds[2].settled = Pending
    /\ rounds[2].timer
    /\ \E i \in Lanes : rounds[2].workers[i] = "run"
    /\ \E i \in Lanes : rounds[2].workers[i] = "idle"

\* C26: a lane message delivered after its round resolved with a divisor or
\* by timeout is ignored: the result and activeWorkers stay as they are
LateMessageIgnored ==
    [][\A r \in DOMAIN rounds : \A i \in Lanes :
          (DeliveredNow(r, i) /\ rounds[r].resolved)
              => /\ rounds'[r].settled = rounds[r].settled
                 /\ rounds'[r].activeWorkers = rounds[r].activeWorkers
                 /\ rounds'[r].resolved
                 /\ UNCHANGED <<pc, factor>>]_vars

\* after a round was resolved by one lane's divisor, the failure message of
\* another lane and a different divisor of a third have been delivered
LateMessageIgnoredWitness ==
    \E r \in DOMAIN rounds : \E i, j \in Lanes :
        /\ rounds[r].resolved
        /\ rounds[r].settled > 1
        /\ rounds[r].workers[i] = "dead"
        /\ rounds[r].msg[i] > 1
        /\ rounds[r].msg[i] # rounds[r].settled
        /\ rounds[r].workers[j] = "dead"
        /\ rounds[r].msg[j] = Null
        /\ rounds[r].activeWorkers = workerCount

\* the lanes of round record rd whose message has been handled
Handled(rd) == {i \in Lanes : rd.workers[i] = "idle"}

\* C27: activeWorkers stays within 0 .. workerCount and is workerCount less
\* the failure messages handled before resolution, and a round resolves to 0
\* by exhaustion only when all its lanes have reported a failure
ActiveWorkersCountsFailures ==
    [][\A r \in DOMAIN rounds :
          LET rd == rounds[r]
          IN  /\ rd.activeWorkers \in 0 .. workerCount
              /\ ~rd.resolved
                    => /\ rd.activeWorkers = workerCount - Cardinality(Handled(rd))
                       /\ \A i \in Handled(rd) : ~IsProperDivisor(rd.n, rd.msg[i])
                       /\ \A i \in Lanes : Alive(rd.workers[i])
              /\ rd.resolved => rounds'[r].activeWorkers = rd.activeWorkers
              /\ (rd.settled = 0 /\ rd.activeWorkers = 0)
                    => \A i \in Lanes : rd.msg[i] = Null /\ rd.workers[i] # "run"
              /\ (rd.settled = 0 /\ ~rd.resolved)
                    => rd.activeWorkers = 0 /\ Handled(rd) = Lanes]_vars

\* a round has resolved to 0 after the last of its lanes reported a failure
ActiveWorkersCountsFailuresWitness ==
    \E r \in DOMAIN rounds :
        /\ rounds[r].settled = 0
        /\ ~rounds[r].resolved
        /\ rounds[r].activeWorkers = 0
        /\ \A i \in Lanes : rounds[r].workers[i] = "idle"

\* C28: computing is true exactly while an analysis started by handleAnalyze
\* is in flight: it becomes true only after validation has succeeded, it is
\* false again once the analysis has returned or thrown, and while it is true
\* the call in flight is never replaced by a new one
ComputingWhileInFlight ==
    [][/\ computing <=> call # NoCall
       /\ computing' <=> call' # NoCall
       /\ (~computing /\ computing')
             => /\ RequiredInputsValid(mode, inputA, inputB)
                /\ call' = [at |-> "A", mode |-> mode, inputA |-> inputA,
                            inputB |-> inputB]
       /\ computing
             => call' \in {call, NoCall, [call EXCEPT !.at = "B"]}]_vars

\* a comparison whose first analysis returned and whose second threw has
\* ended with computing false
ComputingWhileInFlightWitness ==
    /\ mode = "compare"
    /\ reportA # NoReport
    /\ reportB = NoReport
    /\ error = ErrorComputation
    /\ ~computing
    /\ call = NoCall

\* C29: once the mode switch has been clicked both reports are null and stay
\* null until handleAnalyze is invoked again, also when the click comes while
\* an analysis is in flight
ReportsNullAfterToggle ==
    toggled => (reportA = NoReport /\ reportB = NoReport)

\* the greatest common divisor of a and b, 0 for a = b = 0, by trying every
\* candidate
GcdMath(a, b) ==
    IF a = 0 /\ b = 0 THEN 0
    ELSE CHOOSE d \in 1 .. Max(a, b) :
            /\ a % d = 0 /\ b % d = 0
            /\ \A e \in 1 .. Max(a, b) : (a % e = 0 /\ b % e = 0) => e <= d

\* C22: whenever the batched gcd of a lane is n, replaying single steps from
\* the checkpoint saved at the start of the last batch reaches a gcd above 1
\* within that batch's number of steps, so the backtracking loop terminates
BacktrackingTerminates ==
    (outcome # <<>> /\ DOMAIN probe = {"n", "c", "startY", "t"}
                    /\ outcome[1].g = probe.n)
        => /\ outcome[1].found > 1
           /\ probe.n % outcome[1].found = 0
           /\ outcome[1].steps \in 1 .. outcome[1].batch

\* a batch of several steps ended with g = n and the replay found a proper
\* divisor at a later step than the first
BacktrackingTerminatesWitness ==
    /\ outcome # <<>>
    /\ DOMAIN probe = {"n", "c", "startY", "t"}
    /\ outcome[1].g = probe.n
    /\ outcome[1].steps >= 2
    /\ outcome[1].found < probe.n

\* C30: the binary gcd terminates with the greatest common divisor of a and
\* b for all a, b in 0 .. MaxGcdArg, with gcd(0, b) = b and gcd(a, 0) = a
BinaryGcdExact ==
    (outcome # <<>> /\ DOMAIN probe = {"a", "b"})
        => /\ outcome[1] = GcdMath(probe.a, probe.b)
           /\ probe.a = 0 => outcome[1] = probe.b
           /\ probe.b = 0 => outcome[1] = probe.a

\* gcd(12, 18) has returned 6: a common power of two and an odd part
BinaryGcdExactWitness ==
    /\ outcome = <<6>>
    /\ DOMAIN probe = {"a", "b"}
    /\ probe.a = 12 /\ probe.b = 18

\* the work loop of factorizeAsync run on its own from factors fs and queue
\* q, its rounds ending with the values outs in turn
RECURSIVE LoopAlone(_, _, _)
LoopAlone(fs, q, outs) ==
    IF q = <<>> THEN SortAsc(fs)
    ELSE LET cur == q[Len(q)]
             rest == SubSeq(q, 1, Len(q) - 1)
         IN  IF isPrime(cur) THEN LoopAlone(Append(fs, cur), rest, outs)
             ELSE IF outs = <<>> THEN <<>>
             ELSE IF Head(outs) = 0 \/ Head(outs) = cur
             THEN LoopAlone(Append(fs, cur), rest, Tail(outs))
             ELSE LoopAlone(fs, rest \o <<Head(outs), cur \div Head(outs)>>,
                            Tail(outs))

\* the list factorizeAsync(n) returns when run alone with those round values
ResultAlone(n, outs) ==
    IF n < 1 THEN <<>>
    ELSE IF n = 1 THEN <<1>>
    ELSE LET td == TrialDivide(<<>>, n, 1)
         IN  LoopAlone(td[1], IF td[2] > 1 THEN <<td[2]>> ELSE <<>>, outs)

\* the values a round on n can end with when it runs alone: 0 or the
\* message of one of its lanes
RoundValuesAlone(n) ==
    {0} \cup ({WorkerMessage(n, startC(i), seedVal(i)) : i \in Lanes} \ {Null})

\* C21: two calls on the shared architect do not interfere: every round
\* belongs to one call, a step on a round changes no other round and no
\* call but its owner, a step of a call changes no other call, and a call
\* returns the list it returns alone when its rounds end the same way
ConcurrentCallsIndependent ==
    [][/\ \A r \in DOMAIN pool :
             /\ Cardinality({id \in CallIds : r \in Owned(id)}) = 1
             /\ pool'[r] # pool[r]
                   => /\ \A q \in DOMAIN pool : q # r => pool'[q] = pool[q]
                      /\ \A id \in CallIds :
                            r \notin Owned(id) => calls'[id] = calls[id]
       /\ \A id \in CallIds :
             calls'[id] # calls[id]
                   => \A o \in CallIds : o # id => calls'[o] = calls[o]
       /\ \A id \in CallIds :
             (calls[id].pc # "done" /\ calls'[id].pc = "done")
                   => LET own == calls'[id].rounds
                          outs == [k \in DOMAIN own |-> pool'[own[k]].settled]
                      IN  /\ \A k \in DOMAIN own :
                                outs[k] \in RoundValuesAlone(pool'[own[k]].n)
                          /\ calls'[id].result = ResultAlone(calls'[id].n, outs)]_vars

\* both calls have returned their factorizations although the round of one
\* resolved, and terminated its lanes, while a lane of the other still ran
ConcurrentCallsIndependentWitness ==
    /\ calls # <<>>
    /\ calls[1].pc = "done" /\ calls[1].result = <<29, 29>>
    /\ calls[2].pc = "done" /\ calls[2].result = <<29, 31>>
    /\ Len(pool) = 2
    /\ \E i \in Lanes : pool[1].workers[i] = "dead" /\ pool[1].msg[i] = Null
    /\ \A i \in Lanes : pool[2].workers[i] = "dead" /\ pool[2].msg[i] # Null

====
